---- MODULE Spec2Model ----
(***************************************************************************)
(* Model of musicbeat/stddata: the country and language providers.         *)
(*                                                                         *)
(* A Go string is a sequence of bytes (UTF-8 text), so every string of the *)
(* program is a tuple of numbers 0..255 here.  Index names are only used   *)
(* as map keys and inside an error message and are kept as TLA+ strings.   *)
(*                                                                         *)
(* The package-level maps (englishNameMap, alpha2Map, ...) are written by  *)
(* Load alone, which makes them anew when it starts, and are read by no    *)
(* operation: between two calls they carry nothing, so they are values of  *)
(* the running Load and not part of the state between calls.               *)
(***************************************************************************)
EXTENDS Integers, Sequences, FiniteSets, TLC

VARIABLES
    cp,          \* the CountryProvider: loaded, size, countryIndexes
    offset,      \* how many records of the shared reader countrydata are read
    lp,          \* the LanguageProvider: loaded, size, languageIndexes
    last,        \* the call that returned last, with what it returned
    loader,      \* a Load running step by step (interleaved runs only)
    searcher     \* a Search running step by step (interleaved runs only)

vars == <<cp, offset, lp, last, loader, searcher>>

----------------------------------------------------------------------------
(* Bounds of the model *)

\* how many rows of the embedded country table are modelled
MaxCountryRows == 3
\* the longest stream of records the remote language source delivers
MaxRecords == 2

----------------------------------------------------------------------------
(* Go's string and map primitives *)

StatusServiceUnavailable == 503
StatusBadRequest == 400

EmptyMap == << >>

Min(a, b) == IF a < b THEN a ELSE b

\* s < t on Go strings: byte-wise lexicographic order
RECURSIVE StrLess(_, _)
StrLess(s, t) ==
    IF t = << >> THEN FALSE
    ELSE IF s = << >> THEN TRUE
    ELSE IF s[1] # t[1] THEN s[1] < t[1]
    ELSE StrLess(Tail(s), Tail(t))

\* insertion of one string into an ascending sequence
RECURSIVE InsertSorted(_, _)
InsertSorted(s, sorted) ==
    IF sorted = << >> THEN <<s>>
    ELSE IF StrLess(sorted[1], s) THEN <<sorted[1]>> \o InsertSorted(s, Tail(sorted))
    ELSE <<s>> \o sorted

\* sort.Strings(keys): ascending in the order of StrLess
RECURSIVE SortStrings(_)
SortStrings(keys) ==
    IF keys = << >> THEN << >>
    ELSE InsertSorted(keys[1], SortStrings(Tail(keys)))

\* "for k, _ := range m { keys[i] = k; i++ }": the keys of m, each once, in an
\* order the language leaves open (the sort that follows erases it)
RECURSIVE RangeKeys(_)
RangeKeys(S) ==
    IF S = {} THEN << >>
    ELSE LET k == CHOOSE x \in S : TRUE IN <<k>> \o RangeKeys(S \ {k})

MapAppendOverwrite(m, k, e) ==
    IF k \in DOMAIN m THEN [m EXCEPT ![k] = <<e>>] ELSE m @@ (k :> <<e>>)

\* m[k] = append(m[k], e)
MapAppend(m, k, e) ==
    IF k \in DOMAIN m THEN [m EXCEPT ![k] = Append(@, e)] ELSE m @@ (k :> <<e>>)

IsCont(b) == 128 <= b /\ b <= 191

\* utf8.DecodeRuneInString on a non-empty string: the first rune and its width;
\* an invalid or truncated encoding is RuneError (U+FFFD) of width 1
DecodeRune(s) ==
    LET b == s[1]
        n == Len(s)
    IN  IF b < 128 THEN [r |-> b, size |-> 1]
        ELSE IF 194 <= b /\ b <= 223 /\ n >= 2 /\ IsCont(s[2])
            THEN [r |-> (b - 192) * 64 + (s[2] - 128), size |-> 2]
        ELSE IF 224 <= b /\ b <= 239 /\ n >= 3 /\ IsCont(s[2]) /\ IsCont(s[3])
                /\ (b = 224 => s[2] >= 160) /\ (b = 237 => s[2] <= 159)
            THEN [r |-> (b - 224) * 4096 + (s[2] - 128) * 64 + (s[3] - 128), size |-> 3]
        ELSE IF 240 <= b /\ b <= 244 /\ n >= 4 /\ IsCont(s[2]) /\ IsCont(s[3])
                /\ IsCont(s[4]) /\ (b = 240 => s[2] >= 144) /\ (b = 244 => s[2] <= 143)
            THEN [r |-> (b - 240) * 262144 + (s[2] - 128) * 4096
                          + (s[3] - 128) * 64 + (s[4] - 128), size |-> 4]
        ELSE [r |-> 65533, size |-> 1]

\* unicode.SimpleFold(r): the next rune of r's case-folding orbit, for Basic
\* Latin and Latin-1 and the three orbits of length three that reach them
\* (K k KELVIN SIGN, S s LONG S, A-ring a-ring ANGSTROM SIGN); other runes of
\* the model's strings have no case
SimpleFold(r) ==
    IF r = 75 THEN 107 ELSE IF r = 107 THEN 8490 ELSE IF r = 8490 THEN 75
    ELSE IF r = 83 THEN 115 ELSE IF r = 115 THEN 383 ELSE IF r = 383 THEN 83
    ELSE IF r = 197 THEN 229 ELSE IF r = 229 THEN 8491 ELSE IF r = 8491 THEN 197
    ELSE IF 65 <= r /\ r <= 90 THEN r + 32
    ELSE IF 97 <= r /\ r <= 122 THEN r - 32
    ELSE IF 192 <= r /\ r <= 222 /\ r # 215 THEN r + 32
    ELSE IF 224 <= r /\ r <= 254 /\ r # 247 THEN r - 32
    ELSE r

\* the loop "r := SimpleFold(sr); for r != sr && r < tr { r = SimpleFold(r) }"
RECURSIVE FoldUpTo(_, _, _)
FoldUpTo(r, sr, tr) ==
    IF r # sr /\ r < tr THEN FoldUpTo(SimpleFold(r), sr, tr) ELSE r

\* one step of strings.EqualFold on the runes sr <= tr
RuneEqualFold(sr, tr) ==
    \/ sr = tr
    \/ IF tr < 128
       THEN 65 <= sr /\ sr <= 90 /\ tr = sr + 32
       ELSE FoldUpTo(SimpleFold(sr), sr, tr) = tr

\* strings.EqualFold(s, t): rune by rune, equal under simple case folding
RECURSIVE EqualFold(_, _)
EqualFold(s, t) ==
    IF s = << >> THEN t = << >>
    ELSE IF t = << >> THEN FALSE
    ELSE LET ds == DecodeRune(s)
             dt == DecodeRune(t)
         IN  /\ IF ds.r <= dt.r THEN RuneEqualFold(ds.r, dt.r)
                                ELSE RuneEqualFold(dt.r, ds.r)
             /\ EqualFold(SubSeq(s, ds.size + 1, Len(s)),
                          SubSeq(t, dt.size + 1, Len(t)))

----------------------------------------------------------------------------
(* Values returned by the operations *)

NilResult == [nil |-> TRUE]
NoError == [type |-> "nil"]
\* &stddata.ServiceError{msg, status}
ServiceError(msg, status) == [type |-> "ServiceError", msg |-> msg, status |-> status]
\* errors.New(msg)
ErrorString(msg) == [type |-> "errorString", msg |-> msg]

\* the reserved query "_dump"
DumpQuery == <<95, 100, 117, 109, 112>>

----------------------------------------------------------------------------
(* The data sources.  A row is a record as reader.Read returns it: the csv *)
(* framing (delimiter, field count, leading blanks) is the reader's.      *)

\* the first rows of the table embedded in countrydata, as csv records
CountryRows == <<
    << <<65, 102, 103, 104, 97, 110, 105, 115, 116, 97, 110>>,      \* Afghanistan
       <<65, 70>>, <<65, 70, 71>>, <<48, 48, 52>> >>,               \* AF AFG 004
    << <<195, 133, 108, 97, 110, 100, 32, 73, 115, 108, 97, 110, 100, 115>>,
                                                                    \* Aland Islands, A with ring
       <<65, 88>>, <<65, 76, 65>>, <<50, 52, 56>> >>,               \* AX ALA 248
    << <<65, 108, 98, 97, 110, 105, 97>>,                           \* Albania
       <<65, 76>>, <<65, 76, 66>>, <<48, 48, 56>> >>,               \* AL ALB 008
    << <<65, 108, 103, 101, 114, 105, 97>>,                         \* Algeria
       <<68, 90>>, <<68, 90, 65>>, <<48, 49, 50>> >> >>             \* DZ DZA 012

\* the content of the reader countrydata
countrydata == SubSeq(CountryRows, 1, Min(MaxCountryRows, Len(CountryRows)))

\* records the remote language file may hold (alpha-3 bibliographic, alpha-3
\* terminologic, alpha-2, English name, French name); the third repeats the
\* code of the first and the name of the second
LanguageRows == {
    << <<97, 97, 114>>, << >>, <<97, 97>>, <<65, 102, 97, 114>>,
       <<97, 102, 97, 114>> >>,                               \* aar||aa|Afar|afar
    << <<97, 98, 107>>, << >>, <<97, 98>>, <<65, 98, 107, 104, 97, 122, 105, 97, 110>>,
       <<97, 98, 107, 104, 97, 122, 101>> >>,                 \* abk||ab|Abkhazian|abkhaze
    << <<97, 97, 114>>, << >>, << >>, <<65, 98, 107, 104, 97, 122, 105, 97, 110>>,
       <<97, 102, 97, 114>> >> }                              \* aar|||Abkhazian|afar

RECURSIVE SeqsUpTo(_, _)
SeqsUpTo(S, n) ==
    IF n = 0 THEN {<< >>}
    ELSE LET shorter == SeqsUpTo(S, n - 1)
         IN  shorter \cup {Append(q, x) : q \in {t \in shorter : Len(t) = n - 1}, x \in S}

\* what one Load of the language provider meets: http.Get fails, or the body
\* delivers rows and then ends (io.EOF) or breaks (a malformed record, an I/O
\* error)
LanguageSources ==
    {[get |-> "error", rows |-> << >>, end |-> "error"]}
    \cup [get : {"ok"}, rows : SeqsUpTo(LanguageRows, MaxRecords), end : {"EOF", "error"}]

CountryIndexNames == {"name", "alpha2", "alpha3", "number"}
LanguageIndexNames == {"alpha", "name"}

\* index names and queries the callers pass
CountryIndexArgs == CountryIndexNames \cup {"nonexistent"}
LanguageIndexArgs == LanguageIndexNames \cup {"nonexistent"}
QueryArgs == {
    << >>,                    \* ""
    <<97>>,                   \* "a"
    <<65, 70>>,               \* "AF"
    <<195, 165>>,             \* a with ring, U+00E5
    <<226, 132, 171>>,        \* ANGSTROM SIGN, U+212B
    DumpQuery,                \* "_dump"
    <<95, 68, 85, 77, 80>>,   \* "_DUMP"
    <<95, 100, 117, 109>> }   \* "_dum"

----------------------------------------------------------------------------
(* package country *)

\* "var c Country; c.EnglishName = record[0]; ..."
Country(record) ==
    [EnglishName |-> record[1], Alpha2Code |-> record[2],
     Alpha3Code |-> record[3], NumericCode |-> record[4]]

\* one pass of the loop body of Load: the Country is appended to the four maps
CountryAdd(maps, record) ==
    LET c == Country(record)
    IN  [englishNameMap |-> MapAppend(maps.englishNameMap, c.EnglishName, c),
         alpha2Map |-> MapAppend(maps.alpha2Map, c.Alpha2Code, c),
         alpha3Map |-> MapAppend(maps.alpha3Map, c.Alpha3Code, c),
         numericMap |-> MapAppend(maps.numericMap, c.NumericCode, c)]

\* the maps after "make" of each of them
CountryMapsMade ==
    [englishNameMap |-> EmptyMap, alpha2Map |-> EmptyMap,
     alpha3Map |-> EmptyMap, numericMap |-> EmptyMap]

\* the read loop of Load over the records left in the reader
RECURSIVE CountryReadAll(_, _)
CountryReadAll(maps, records) ==
    IF records = << >> THEN maps
    ELSE CountryReadAll(CountryAdd(maps, records[1]), Tail(records))

\* p.storeData(s, m): the map with its keys sorted, under the name s
CountryStoreData(indexes, s, m) ==
    LET ci == [countryMap |-> m,
               countryKeys |-> SortStrings(RangeKeys(DOMAIN m))]
    IN  IF s \in DOMAIN indexes THEN [indexes EXCEPT ![s] = ci]
        ELSE indexes @@ (s :> ci)

\* the loop of doSearch from key number k on, tmp[0:i] being acc
RECURSIVE CountryScan(_, _, _, _, _)
CountryScan(ci, query, dump, k, acc) ==
    IF k > Len(ci.countryKeys) THEN acc
    ELSE LET key == ci.countryKeys[k]
         IN  IF dump
             THEN CountryScan(ci, query, dump, k + 1, Append(acc, ci.countryMap[key]))
             ELSE IF Len(key) >= Len(query)
                     /\ EqualFold(query, SubSeq(key, 1, Len(query)))
             THEN CountryScan(ci, query, dump, k + 1, Append(acc, ci.countryMap[key]))
             ELSE CountryScan(ci, query, dump, k + 1, acc)

\* doSearch with the reserved query compared by EqualFold instead of ==
CountryDoSearchFoldedDump(ci, query) ==
    LET dump == EqualFold(query, DumpQuery)
    IN  [Countries |-> CountryScan(ci, query, dump, 1, << >>)]

\* doSearch(ci, query) of package country
CountryDoSearch(ci, query) ==
    LET dump == query = DumpQuery
    IN  [Countries |-> CountryScan(ci, query, dump, 1, << >>)]

\* what p.Search(index, query) returns on the provider p
CountrySearchReturn(p, index, query) ==
    IF p.loaded # TRUE
    THEN [outcome |-> "return", result |-> NilResult,
          err |-> ErrorString("this should be a 503 Service Unavailable by the time it gets to the client")]
    ELSE IF index \notin DOMAIN p.countryIndexes
    THEN [outcome |-> "return", result |-> NilResult,
          err |-> ServiceError(<<"No index on ", index>>, StatusBadRequest)]
    ELSE [outcome |-> "return",
          result |-> CountryDoSearch(p.countryIndexes[index], query),
          err |-> NoError]

\* CountryProvider.Load, the whole call: the reader countrydata is shared by
\* every call and is read from where the call before left it
CountryLoad ==
    LET records == SubSeq(countrydata, offset + 1, Len(countrydata))
        maps == CountryReadAll(CountryMapsMade, records)
        i1 == CountryStoreData(EmptyMap, "name", maps.englishNameMap)
        i2 == CountryStoreData(i1, "alpha2", maps.alpha2Map)
        i3 == CountryStoreData(i2, "alpha3", maps.alpha3Map)
        i4 == CountryStoreData(i3, "number", maps.numericMap)
        n == Cardinality(DOMAIN maps.englishNameMap)
    IN  /\ cp' = [loaded |-> TRUE, size |-> n, countryIndexes |-> i4]
        /\ offset' = Len(countrydata)
        /\ last' = [op |-> "Load", provider |-> "country", records |-> records,
                    outcome |-> "return", n |-> n, err |-> NoError]
        /\ UNCHANGED <<lp, loader, searcher>>

\* Search that filters the key list of the index in place (tmp sharing the
\* array of ci.countryKeys): the index keeps only the keys that matched
CountrySearchInPlace(index, query) ==
    /\ last' = [op |-> "Search", provider |-> "country", index |-> index,
                query |-> query] @@ CountrySearchReturn(cp, index, query)
    /\ cp' = IF cp.loaded /\ index \in DOMAIN cp.countryIndexes
             THEN LET Hit(k) == /\ Len(k) >= Len(query)
                                /\ EqualFold(query, SubSeq(k, 1, Len(query)))
                  IN  [cp EXCEPT !.countryIndexes[index].countryKeys = SelectSeq(@, Hit)]
             ELSE cp
    /\ UNCHANGED <<offset, lp, loader, searcher>>

\* CountryProvider.Search(index, query), the whole call
CountrySearch(index, query) ==
    /\ last' = [op |-> "Search", provider |-> "country", index |-> index,
                query |-> query] @@ CountrySearchReturn(cp, index, query)
    /\ UNCHANGED <<cp, offset, lp, loader, searcher>>

----------------------------------------------------------------------------
(* package language *)

\* "var l Language; l.Alpha3bibliographic = record[0]; ..."
Language(record) ==
    [Alpha3bibliographic |-> record[1], Alpha3terminologic |-> record[2],
     Alpha2 |-> record[3], EnglishName |-> record[4], FrenchName |-> record[5]]

\* one pass of the loop body of Load: the Language is appended to the two maps
LanguageAdd(maps, record) ==
    LET l == Language(record)
    IN  [alphaMap |-> MapAppend(maps.alphaMap, l.Alpha3bibliographic, l),
         englishNameMap |-> MapAppend(maps.englishNameMap, l.EnglishName, l)]

\* the maps after "make" of each of them
LanguageMapsMade == [alphaMap |-> EmptyMap, englishNameMap |-> EmptyMap]

\* the read loop of Load over the records the body delivers
RECURSIVE LanguageReadAll(_, _)
LanguageReadAll(maps, records) ==
    IF records = << >> THEN maps
    ELSE LanguageReadAll(LanguageAdd(maps, records[1]), Tail(records))

\* p.storeData(s, m): the map with its keys sorted, under the name s
LanguageStoreData(indexes, s, m) ==
    LET li == [languageMap |-> m,
               languageKeys |-> SortStrings(RangeKeys(DOMAIN m))]
    IN  IF s \in DOMAIN indexes THEN [indexes EXCEPT ![s] = li]
        ELSE indexes @@ (s :> li)

\* the loop of doSearch from key number k on, tmp[0:i] being acc
RECURSIVE LanguageScan(_, _, _, _, _)
LanguageScan(li, query, dump, k, acc) ==
    IF k > Len(li.languageKeys) THEN acc
    ELSE LET key == li.languageKeys[k]
         IN  IF dump
             THEN LanguageScan(li, query, dump, k + 1, Append(acc, li.languageMap[key]))
             ELSE IF Len(key) >= Len(query)
                     /\ EqualFold(query, SubSeq(key, 1, Len(query)))
             THEN LanguageScan(li, query, dump, k + 1, Append(acc, li.languageMap[key]))
             ELSE LanguageScan(li, query, dump, k + 1, acc)

\* doSearch(li, query) of package language
LanguageDoSearch(li, query) ==
    LET dump == query = DumpQuery
    IN  [Languages |-> LanguageScan(li, query, dump, 1, << >>)]

\* what p.Search(index, query) does on the provider p.  On a provider that is
\* not loaded it evaluates err.Error() on the named result err, which is still
\* the nil interface: a run-time panic (nil pointer dereference), no return
LanguageSearchReturn(p, index, query) ==
    IF p.loaded # TRUE
    THEN [outcome |-> "panic", result |-> NilResult, err |-> NoError]
    ELSE IF index \notin DOMAIN p.languageIndexes
    THEN [outcome |-> "return", result |-> NilResult,
          err |-> ServiceError(<<"No index on ", index>>, StatusBadRequest)]
    ELSE [outcome |-> "return",
          result |-> LanguageDoSearch(p.languageIndexes[index], query),
          err |-> NoError]

\* LanguageProvider.Load, the whole call, on what the remote source does
LanguageLoad(src) ==
    LET maps == LanguageReadAll(LanguageMapsMade, src.rows)
        i1 == LanguageStoreData(EmptyMap, "alpha", maps.alphaMap)
        i2 == LanguageStoreData(i1, "name", maps.englishNameMap)
        n == Cardinality(DOMAIN maps.alphaMap)
    IN  /\ IF src.get = "error"
           THEN \* http.Get failed: return 0, ServiceError
                /\ lp' = [lp EXCEPT !.languageIndexes = EmptyMap]
                /\ last' = [op |-> "Load", provider |-> "language", records |-> << >>,
                            outcome |-> "return", n |-> 0,
                            err |-> ServiceError("http.Get", StatusServiceUnavailable)]
           ELSE IF src.end = "error"
           THEN \* reader.Read failed after src.rows: return 0, ServiceError
                /\ lp' = [lp EXCEPT !.languageIndexes = EmptyMap]
                /\ last' = [op |-> "Load", provider |-> "language", records |-> src.rows,
                            outcome |-> "return", n |-> 0,
                            err |-> ServiceError("reader.Read", StatusServiceUnavailable)]
           ELSE /\ lp' = [loaded |-> TRUE, size |-> n, languageIndexes |-> i2]
                /\ last' = [op |-> "Load", provider |-> "language", records |-> src.rows,
                            outcome |-> "return", n |-> n, err |-> NoError]
        /\ UNCHANGED <<cp, offset, loader, searcher>>

\* LanguageProvider.Search(index, query), the whole call
LanguageSearch(index, query) ==
    /\ last' = [op |-> "Search", provider |-> "language", index |-> index,
                query |-> query] @@ LanguageSearchReturn(lp, index, query)
    /\ UNCHANGED <<cp, offset, lp, loader, searcher>>

----------------------------------------------------------------------------
(* The providers, one call after the other *)

\* new(CountryProvider), new(LanguageProvider), and the packages' variables
\* before any call
Init ==
    /\ cp = [loaded |-> FALSE, size |-> 0, countryIndexes |-> EmptyMap]
    /\ offset = 0
    /\ lp = [loaded |-> FALSE, size |-> 0, languageIndexes |-> EmptyMap]
    /\ last = [op |-> "none"]
    /\ loader = [pc |-> "idle"]
    /\ searcher = [pc |-> "idle"]

Next ==
    \/ CountryLoad
    \/ \E index \in CountryIndexArgs, query \in QueryArgs : CountrySearch(index, query)
    \/ \E src \in LanguageSources : LanguageLoad(src)
    \/ \E index \in LanguageIndexArgs, query \in QueryArgs : LanguageSearch(index, query)

Spec == Init /\ [][Next]_vars

----------------------------------------------------------------------------
(* One Load and one Search of the CountryProvider running at the same time, *)
(* a statement at a time, on sequentially consistent memory.  The embedded  *)
(* table is well formed (four fields in every row, no quote), so the error   *)
(* branch of the read loop is not taken.                                     *)

\* Load is called; "p.countryIndexes = make(map[string]countryIndex)"
LoadReset ==
    /\ loader.pc = "idle"
    /\ cp' = [cp EXCEPT !.countryIndexes = EmptyMap]
    /\ loader' = [pc |-> "make", maps |-> CountryMapsMade]
    /\ UNCHANGED <<offset, lp, last, searcher>>

\* the four package maps are made, the csv reader is set up
LoadMake ==
    /\ loader.pc = "make"
    /\ loader' = [pc |-> "read", maps |-> CountryMapsMade]
    /\ UNCHANGED <<cp, offset, lp, last, searcher>>

\* "record, err := reader.Read()": the next record, or io.EOF and break
LoadRead ==
    /\ loader.pc = "read"
    /\ IF offset < Len(countrydata)
       THEN /\ offset' = offset + 1
            /\ loader' = [pc |-> "add", maps |-> loader.maps,
                          record |-> countrydata[offset + 1]]
       ELSE /\ offset' = offset
            /\ loader' = [pc |-> "store_name", maps |-> loader.maps]
    /\ UNCHANGED <<cp, lp, last, searcher>>

\* the Country of the record is appended to the four maps
LoadAdd ==
    /\ loader.pc = "add"
    /\ loader' = [pc |-> "read", maps |-> CountryAdd(loader.maps, loader.record)]
    /\ UNCHANGED <<cp, offset, lp, last, searcher>>

\* p.storeData("name", englishNameMap)
LoadStoreName ==
    /\ loader.pc = "store_name"
    /\ cp' = [cp EXCEPT !.countryIndexes =
                 CountryStoreData(@, "name", loader.maps.englishNameMap)]
    /\ loader' = [loader EXCEPT !.pc = "store_alpha2"]
    /\ UNCHANGED <<offset, lp, last, searcher>>

\* p.storeData("alpha2", alpha2Map)
LoadStoreAlpha2 ==
    /\ loader.pc = "store_alpha2"
    /\ cp' = [cp EXCEPT !.countryIndexes =
                 CountryStoreData(@, "alpha2", loader.maps.alpha2Map)]
    /\ loader' = [loader EXCEPT !.pc = "store_alpha3"]
    /\ UNCHANGED <<offset, lp, last, searcher>>

\* p.storeData("alpha3", alpha3Map)
LoadStoreAlpha3 ==
    /\ loader.pc = "store_alpha3"
    /\ cp' = [cp EXCEPT !.countryIndexes =
                 CountryStoreData(@, "alpha3", loader.maps.alpha3Map)]
    /\ loader' = [loader EXCEPT !.pc = "store_number"]
    /\ UNCHANGED <<offset, lp, last, searcher>>

\* p.storeData("number", numericMap)
LoadStoreNumber ==
    /\ loader.pc = "store_number"
    /\ cp' = [cp EXCEPT !.countryIndexes =
                 CountryStoreData(@, "number", loader.maps.numericMap)]
    /\ loader' = [loader EXCEPT !.pc = "size"]
    /\ UNCHANGED <<offset, lp, last, searcher>>

\* "p.size = len(englishNameMap)"
LoadSize ==
    /\ loader.pc = "size"
    /\ cp' = [cp EXCEPT !.size = Cardinality(DOMAIN loader.maps.englishNameMap)]
    /\ loader' = [loader EXCEPT !.pc = "loaded"]
    /\ UNCHANGED <<offset, lp, last, searcher>>

\* "p.loaded = true"
LoadLoaded ==
    /\ loader.pc = "loaded"
    /\ cp' = [cp EXCEPT !.loaded = TRUE]
    /\ loader' = [loader EXCEPT !.pc = "return"]
    /\ UNCHANGED <<offset, lp, last, searcher>>

\* "return len(englishNameMap), err"
LoadReturn ==
    /\ loader.pc = "return"
    /\ loader' = [pc |-> "idle"]
    /\ UNCHANGED <<cp, offset, lp, last, searcher>>

\* Search(index, query) is called; "if p.loaded != true { return nil, ... }"
SearchCheckLoaded(index, query) ==
    /\ searcher.pc = "idle"
    /\ searcher' =
         IF cp.loaded # TRUE
         THEN [pc |-> "done", index |-> index, query |-> query,
               result |-> NilResult,
               err |-> ErrorString("this should be a 503 Service Unavailable by the time it gets to the client")]
         ELSE [pc |-> "lookup", index |-> index, query |-> query]
    /\ UNCHANGED <<cp, offset, lp, last, loader>>

\* "ci, found := p.countryIndexes[index]; if !found { return nil, ... }".
\* "present" notes the index names the provider held at this read
SearchLookup ==
    /\ searcher.pc = "lookup"
    /\ searcher' =
         IF searcher.index \notin DOMAIN cp.countryIndexes
         THEN [pc |-> "done", index |-> searcher.index, query |-> searcher.query,
               result |-> NilResult,
               err |-> ServiceError(<<"No index on ", searcher.index>>, StatusBadRequest),
               present |-> DOMAIN cp.countryIndexes]
         ELSE [pc |-> "search", index |-> searcher.index, query |-> searcher.query,
               ci |-> cp.countryIndexes[searcher.index],
               present |-> DOMAIN cp.countryIndexes]
    /\ UNCHANGED <<cp, offset, lp, last, loader>>

\* "result = doSearch(ci, query)"
SearchDoSearch ==
    /\ searcher.pc = "search"
    /\ searcher' = [pc |-> "done", index |-> searcher.index, query |-> searcher.query,
                    result |-> CountryDoSearch(searcher.ci, searcher.query),
                    err |-> NoError, present |-> searcher.present]
    /\ UNCHANGED <<cp, offset, lp, last, loader>>

\* the caller has the values; the next Search may start
SearchReturn ==
    /\ searcher.pc = "done"
    /\ searcher' = [pc |-> "idle"]
    /\ UNCHANGED <<cp, offset, lp, last, loader>>

NextConc ==
    \/ LoadReset \/ LoadMake \/ LoadRead \/ LoadAdd
    \/ LoadStoreName \/ LoadStoreAlpha2 \/ LoadStoreAlpha3 \/ LoadStoreNumber
    \/ LoadSize \/ LoadLoaded \/ LoadReturn
    \/ \E index \in CountryIndexArgs, query \in QueryArgs : SearchCheckLoaded(index, query)
    \/ SearchLookup \/ SearchDoSearch \/ SearchReturn

SpecConc == Init /\ [][NextConc]_vars

----------------------------------------------------------------------------
(* Vocabulary of the properties *)

\* the provider a call record names
IsLoaded(provider) == IF provider = "country" THEN cp.loaded ELSE lp.loaded
Indexes(provider) ==
    IF provider = "country" THEN cp.countryIndexes ELSE lp.languageIndexes
Configured(provider) ==
    IF provider = "country" THEN CountryIndexNames ELSE LanguageIndexNames
IndexMap(provider, index) ==
    IF provider = "country" THEN cp.countryIndexes[index].countryMap
    ELSE lp.languageIndexes[index].languageMap
IndexKeys(provider, index) ==
    IF provider = "country" THEN cp.countryIndexes[index].countryKeys
    ELSE lp.languageIndexes[index].languageKeys
Groups(result) ==
    IF "Countries" \in DOMAIN result THEN result.Countries ELSE result.Languages

\* the key each index takes from an entity
KeyOf(provider, index, e) ==
    IF provider = "country"
    THEN CASE index = "name" -> e.EnglishName
           [] index = "alpha2" -> e.Alpha2Code
           [] index = "alpha3" -> e.Alpha3Code
           [] index = "number" -> e.NumericCode
    ELSE CASE index = "alpha" -> e.Alpha3bibliographic
           [] index = "name" -> e.EnglishName
Entity(provider, record) ==
    IF provider = "country" THEN Country(record) ELSE Language(record)

\* the strings of S in ascending byte-wise order
RECURSIVE Ascending(_)
Ascending(S) ==
    IF S = {} THEN << >>
    ELSE LET least == CHOOSE x \in S : \A y \in S \ {x} : StrLess(x, y)
         IN  <<least>> \o Ascending(S \ {least})

\* the characters (code points) of a string
RECURSIVE Runes(_)
Runes(s) ==
    IF s = << >> THEN << >>
    ELSE LET d == DecodeRune(s) IN <<d.r>> \o Runes(SubSeq(s, d.size + 1, Len(s)))

\* two characters equal but for case: one case-folding orbit holds both
SameLetter(a, b) ==
    a = b \/ SimpleFold(a) = b \/ SimpleFold(SimpleFold(a)) = b

\* the first length(q) characters of k equal q but for case
CharPrefix(k, q) ==
    LET rk == Runes(k)
        rq == Runes(q)
    IN  /\ Len(rk) >= Len(rq)
        /\ \A i \in 1..Len(rq) : SameLetter(rk[i], rq[i])

\* the first len(q) bytes of k equal q under strings.EqualFold
BytePrefix(k, q) ==
    Len(k) >= Len(q) /\ EqualFold(q, SubSeq(k, 1, Len(q)))

\* the groups of the keys ks, in the order of ks
GroupsOf(provider, index, ks) ==
    [i \in 1..Len(ks) |-> IndexMap(provider, index)[ks[i]]]

\* the last call was a Search that got to doSearch
Searched ==
    last.op = "Search" /\ last.outcome = "return" /\ last.err = NoError

----------------------------------------------------------------------------
(* The properties *)

\* C1: no operation panics: every Load and every Search, of either provider,
\* in any state and for any arguments, ends by returning its values.
C1_NoPanic ==
    last.op \in {"Load", "Search"} => last.outcome = "return"

\* C2: a Search on a provider on which no Load has succeeded (the flag is set
\* by a successful Load alone and never cleared) returns a nil result and an
\* error of the "service unavailable" kind, whatever the index and the query.
C2_NotReadyGuard ==
    (last.op = "Search" /\ ~IsLoaded(last.provider)) =>
        /\ last.outcome = "return"
        /\ last.result = NilResult
        /\ last.err.type = "ServiceError"
        /\ last.err.status = StatusServiceUnavailable

\* C3: after a Load that returned an error the count returned is 0, the
\* provider is not ready and none of its named indices is populated, also
\* when an earlier Load had succeeded.
C3_FailedLoadAllOrNothing ==
    (last.op = "Load" /\ last.err # NoError) =>
        /\ last.n = 0
        /\ ~IsLoaded(last.provider)
        /\ Indexes(last.provider) = EmptyMap

\* every configured index of the provider is present and built: its key list
\* is the ascending list of the keys of its map
FullyBuilt(provider) ==
    /\ DOMAIN Indexes(provider) = Configured(provider)
    /\ \A index \in Configured(provider) :
          IndexKeys(provider, index) = Ascending(DOMAIN IndexMap(provider, index))

C4_ReadyIffBuilt ==
    \A provider \in {"country", "language"} :
        IsLoaded(provider) <=> FullyBuilt(provider)

\* C4: in every state the loaded flag is true exactly when every configured
\* index is present and fully built, and once the flag is true neither the
\* flag nor any index changes in a later state.
C4_ReadinessInvariant ==
    /\ []C4_ReadyIffBuilt
    /\ [][(cp.loaded => cp' = cp) /\ (lp.loaded => lp' = lp)]_vars

\* C5: a Search with a query q other than "_dump" returns exactly the groups
\* of the keys k with length(k) >= length(q) whose first length(q) characters
\* equal q but for case, each once, in ascending byte-wise order of the keys.
C5_PrefixSoundComplete ==
    (Searched /\ last.query # DumpQuery) =>
        LET Match(k) == CharPrefix(k, last.query)
            ks == SelectSeq(Ascending(DOMAIN IndexMap(last.provider, last.index)), Match)
        IN  Groups(last.result) = GroupsOf(last.provider, last.index, ks)

C7_UnknownIndex ==
    (last.op = "Search" /\ IsLoaded(last.provider)) =>
        /\ last.outcome = "return"
        /\ IF last.index \in Configured(last.provider)
           THEN ~(last.err.type = "ServiceError" /\ last.err.status = StatusBadRequest)
           ELSE /\ last.result = NilResult
                /\ last.err = ServiceError(<<"No index on ", last.index>>, StatusBadRequest)

\* what the Search of the last call returns when it is issued again now
SearchAgain ==
    IF last.provider = "country"
    THEN CountrySearchReturn(cp, last.index, last.query)
    ELSE LanguageSearchReturn(lp, last.index, last.query)

\* the Search of the last call, issued again now, returns the same values
SameAgain ==
    last.op = "Search" =>
        /\ SearchAgain.outcome = last.outcome
        /\ SearchAgain.result = last.result
        /\ SearchAgain.err = last.err

\* C8: a Search changes no provider state (flag, maps, key lists, reader), so
\* the same Search issued again, after any number of other Searches, returns
\* the identical result in the identical order.  (The steps that leave a
\* Search in "last" are the Search steps: a Load leaves a Load there.)
C8_SearchReadOnly ==
    /\ []SameAgain
    /\ [][last'.op = "Search" => cp' = cp /\ lp' = lp /\ offset' = offset]_vars

\* a Search that returned groups
C8_Witness ==
    Searched /\ Len(Groups(last.result)) >= 2

\* C9: a Search running while a Load runs on the same provider either fails
\* as not ready or reads the complete index set of a finished load: every
\* configured index is present when it looks its index up.
C9_NoPartialIndex ==
    searcher.pc = "done" =>
        \/ searcher.err.type = "errorString"
        \/ searcher.present = CountryIndexNames

\* the entities of the records a Load read, in the order it read them
Loaded ==
    [i \in 1..Len(last.records) |-> Entity(last.provider, last.records[i])]

\* C10: after a successful Load, in every index, every entity read is in the
\* group of its key and in no other, the entities of a key are all kept, in
\* the order read, and no group is empty.
C10_GroupingByKey ==
    (last.op = "Load" /\ last.err = NoError) =>
        \A index \in Configured(last.provider) :
            LET m == IndexMap(last.provider, index)
            IN  /\ DOMAIN m = {KeyOf(last.provider, index, Loaded[i]) : i \in DOMAIN Loaded}
                /\ \A k \in DOMAIN m :
                      LET HasKey(e) == KeyOf(last.provider, index, e) = k
                      IN  m[k] # << >> /\ m[k] = SelectSeq(Loaded, HasKey)

\* a Load that put two entities under one key
C10_Witness ==
    /\ last.op = "Load" /\ last.err = NoError
    /\ \E index \in Configured(last.provider) :
          \E k \in DOMAIN IndexMap(last.provider, index) :
              Len(IndexMap(last.provider, index)[k]) >= 2

====
